---- MODULE Spec2Model ----
(***************************************************************************)
(* Model of scripts/generate_panel_fourmm.py: the FourMM panel generator.  *)
(*                                                                         *)
(* Lengths are kept in hundredths of a millimetre (20.0 mm = 2000).  Every *)
(* entry of the parameter table has at most two decimals, so all layout    *)
(* arithmetic of the script is exact in this unit; the script's binary     *)
(* floats differ from these decimals by about 1e-14 mm, which the one- and *)
(* two-decimal formats of the emitters hide (see RoundTenths for the one   *)
(* value of the table that is a decimal tie).                              *)
(* Documents are sequences of lines, a line being a record of the fields   *)
(* that the script's f-string prints (already formatted to text); Render   *)
(* turns a line into the exact text of the f-string.                       *)
(***************************************************************************)
EXTENDS Integers, Sequences, FiniteSets, TLC

(***************************************************************************)
(* Bounds of the model                                                     *)
(***************************************************************************)
MaxRuns == 2

(***************************************************************************)
(* Panel dimensions                                                        *)
(***************************************************************************)
HP == 26

WIDTH_MM == HP * 508

HEIGHT_MM == 12850

SMALL_KNOB_RADIUS == 250

JACK_RADIUS == 320

TOGGLE_W == 250

TOGGLE_H == 500

(***************************************************************************)
(* Vertical layout                                                         *)
(***************************************************************************)
Y_ALGO == 1500

Y_GLOBAL_ROW1 == 2600

Y_GLOBAL_ROW2 == 3600

Y_OP_HEADER == 4600

Y_OPS_START == 5500

Y_OPS_ROW_SPACING == 1500

(***************************************************************************)
(* Horizontal layout                                                       *)
(***************************************************************************)
MARGIN_LEFT == 400

MARGIN_RIGHT == 400

LABEL_COL_X == 1700

OP_SECTION_LEFT == 2000

OP_COL_PITCH_NoMargin == (WIDTH_MM - OP_SECTION_LEFT) \div 4

OP_COL_PITCH == (WIDTH_MM - MARGIN_RIGHT - OP_SECTION_LEFT) \div 4

op_knob_x_NoInset(op_idx) == OP_SECTION_LEFT + OP_COL_PITCH * op_idx

op_knob_x(op_idx) == OP_SECTION_LEFT + OP_COL_PITCH * op_idx + 500

KNOB_TO_MIDDLE_DX == 850

KNOB_TO_RIGHT_DX == 1700

(***************************************************************************)
(* Global control positions, in the insertion order of the dict            *)
(***************************************************************************)
GLOBAL_CONTROLS ==
  << [name |-> "algo_display",   x |-> WIDTH_MM \div 2,      y |-> Y_ALGO],
     [name |-> "voct_jack",      x |-> 2000,                 y |-> Y_GLOBAL_ROW1],
     [name |-> "fine_tune_knob", x |-> WIDTH_MM \div 2,      y |-> Y_GLOBAL_ROW1],
     [name |-> "vca_knob",       x |-> WIDTH_MM - 2700,      y |-> Y_GLOBAL_ROW1],
     [name |-> "main_output",    x |-> WIDTH_MM - 1800,      y |-> Y_GLOBAL_ROW1],
     [name |-> "xm_knob",        x |-> 2000,                 y |-> Y_GLOBAL_ROW2],
     [name |-> "xm_cv_jack",     x |-> 2900,                 y |-> Y_GLOBAL_ROW2],
     [name |-> "xm_cv_atten",    x |-> 3700,                 y |-> Y_GLOBAL_ROW2],
     [name |-> "fm_cv_jack",     x |-> WIDTH_MM - 1800 - 900, y |-> Y_GLOBAL_ROW2],
     [name |-> "fm_cv_atten",    x |-> WIDTH_MM - 1800,      y |-> Y_GLOBAL_ROW2] >>

CV_ROWS == <<1, 2, 3, 4>>

(***************************************************************************)
(* Text helpers: Python's str operations used by the script                *)
(***************************************************************************)
\* sub in name
Contains(name, sub) ==
  \E i \in 1..(Len(name) - Len(sub) + 1) : SubSeq(name, i, i + Len(sub) - 1) = sub

UpperChar(c) ==
  CASE c = "a" -> "A" [] c = "b" -> "B" [] c = "c" -> "C" [] c = "d" -> "D"
    [] c = "e" -> "E" [] c = "f" -> "F" [] c = "g" -> "G" [] c = "h" -> "H"
    [] c = "i" -> "I" [] c = "j" -> "J" [] c = "k" -> "K" [] c = "l" -> "L"
    [] c = "m" -> "M" [] c = "n" -> "N" [] c = "o" -> "O" [] c = "p" -> "P"
    [] c = "q" -> "Q" [] c = "r" -> "R" [] c = "s" -> "S" [] c = "t" -> "T"
    [] c = "u" -> "U" [] c = "v" -> "V" [] c = "w" -> "W" [] c = "x" -> "X"
    [] c = "y" -> "Y" [] c = "z" -> "Z" [] OTHER -> c

RECURSIVE Upper(_)
\* name.upper()
Upper(s) ==
  IF Len(s) = 0 THEN ""
  ELSE UpperChar(SubSeq(s, 1, 1)) \o Upper(SubSeq(s, 2, Len(s)))

(***************************************************************************)
(* Number formatting.  v is a length in hundredths of a millimetre.        *)
(***************************************************************************)
\* v rounded to tenths (format spec .1f).  The format rounds the double the
\* script computed; the one decimal tie of the table, the third column
\* separator x = 101.05, is the double 101.05000000000001136..., which lies
\* above the tie and is printed as 101.1: ties go up.
RoundTenths(v) ==
  LET q == v \div 10
      m == v % 10
  IN  IF m >= 5 THEN q + 1 ELSE q

\* f'{v:.1f}'
Fmt1(v) ==
  LET t == RoundTenths(v)
  IN  ToString(t \div 10) \o "." \o ToString(t % 10)

\* f'{v:.2f}'
Fmt2(v) ==
  ToString(v \div 100) \o "." \o ToString((v % 100) \div 10) \o ToString(v % 10)

\* f'{v}': repr of a float, the shortest decimal that reads back as v
Repr(v) ==
  IF v % 10 = 0
  THEN ToString(v \div 100) \o "." \o ToString((v % 100) \div 10)
  ELSE Fmt2(v)

(***************************************************************************)
(* SVG generation                                                          *)
(***************************************************************************)
\* _circle with the centre cut to one decimal instead of rounded
_circle_Trunc(x, y, r, fill, stroke) ==
  [tag |-> "circle",
   cx |-> ToString(x \div 100) \o "." \o ToString((x % 100) \div 10),
   cy |-> ToString(y \div 100) \o "." \o ToString((y % 100) \div 10),
   r |-> Repr(r), fill |-> fill, stroke |-> stroke]

_circle(x, y, r, fill, stroke) ==
  [tag |-> "circle", cx |-> Fmt1(x), cy |-> Fmt1(y), r |-> Repr(r),
   fill |-> fill, stroke |-> stroke]

_rect(x, y, w, h, fill, stroke) ==
  [tag |-> "rect", x |-> Fmt1(x), y |-> Fmt1(y), width |-> Fmt1(w),
   height |-> Fmt1(h), fill |-> fill, stroke |-> stroke]

_line(x1, y1, x2, y2) ==
  [tag |-> "line", x1 |-> Fmt1(x1), y1 |-> Fmt1(y1), x2 |-> Fmt1(x2),
   y2 |-> Fmt1(y2), stroke |-> "#404060", width |-> Repr(20)]

\* the opening <svg ...> line
SvgOpen ==
  [tag |-> "svg", width |-> Repr(WIDTH_MM), height |-> Repr(HEIGHT_MM)]

\* the panel background rectangle
SvgBackground ==
  [tag |-> "background", width |-> Repr(WIDTH_MM), height |-> Repr(HEIGHT_MM)]

\* the algorithm display area rectangle
SvgAlgoRect ==
  LET ax == GLOBAL_CONTROLS[1].x
      ay == GLOBAL_CONTROLS[1].y
      algo_w == WIDTH_MM - 2 * 1600
  IN  [tag |-> "algo", x |-> Fmt1(ax - algo_w \div 2), y |-> Fmt1(ay - 400),
       width |-> Fmt1(algo_w), height |-> "8"]

SvgClose == [tag |-> "/svg"]

\* the if/elif/else choosing r, fill, stroke of a global control
GlobalStyle_AttenFirst(name) ==
  IF Contains(name, "atten")
  THEN [r |-> SMALL_KNOB_RADIUS, fill |-> "#333", stroke |-> "#666"]
  ELSE IF Contains(name, "jack") \/ Contains(name, "output")
  THEN [r |-> JACK_RADIUS, fill |-> "#222", stroke |-> "#888"]
  ELSE [r |-> SMALL_KNOB_RADIUS, fill |-> "#333", stroke |-> "#aaa"]

GlobalStyle(name) ==
  IF Contains(name, "jack") \/ Contains(name, "output")
  THEN [r |-> JACK_RADIUS, fill |-> "#222", stroke |-> "#888"]
  ELSE IF Contains(name, "atten")
  THEN [r |-> SMALL_KNOB_RADIUS, fill |-> "#333", stroke |-> "#666"]
  ELSE [r |-> SMALL_KNOB_RADIUS, fill |-> "#333", stroke |-> "#aaa"]

RECURSIVE SvgGlobalsFrom(_)
\* for name, (x, y) in GLOBAL_CONTROLS.items(), from the i-th item on
SvgGlobalsFrom(i) ==
  IF i > Len(GLOBAL_CONTROLS) THEN << >>
  ELSE LET g == GLOBAL_CONTROLS[i]
           s == GlobalStyle(g.name)
       IN  IF g.name = "algo_display"
           THEN SvgGlobalsFrom(i + 1)
           ELSE << _circle(g.x, g.y, s.r, s.fill, s.stroke) >>
                  \o SvgGlobalsFrom(i + 1)

\* the separator line above the operator section
SvgSeparator ==
  LET sep_y == Y_OP_HEADER - 300
  IN  _line(MARGIN_LEFT, sep_y, WIDTH_MM - MARGIN_RIGHT, sep_y)

col_mid_x(i) == op_knob_x(i) + KNOB_TO_MIDDLE_DX

RECURSIVE SvgVSepsFrom(_)
\* for i in range(3): the vertical separators between the columns
SvgVSepsFrom(i) ==
  IF i >= 3 THEN << >>
  ELSE LET x == (col_mid_x(i) + col_mid_x(i + 1)) \div 2
           v_sep_top == Y_OPS_START - TOGGLE_H
           v_sep_bottom == Y_OPS_START + 4 * Y_OPS_ROW_SPACING + 400
       IN  << _line(x, v_sep_top, x, v_sep_bottom) >> \o SvgVSepsFrom(i + 1)

\* SvgCell without the toggle rectangle of row 0
SvgCell_NoToggle(row, col) ==
  LET y  == Y_OPS_START + row * Y_OPS_ROW_SPACING
      kx == op_knob_x(col)
      mx == kx + KNOB_TO_MIDDLE_DX
      rx == kx + KNOB_TO_RIGHT_DX
  IN  IF row = 0
      THEN << _circle(kx, y, SMALL_KNOB_RADIUS, "#333", "#aaa"),
              _circle(rx, y, SMALL_KNOB_RADIUS, "#333", "#666") >>
      ELSE << _circle(kx, y, SMALL_KNOB_RADIUS, "#333", "#aaa"),
              _circle(mx, y, JACK_RADIUS, "#222", "#888"),
              _circle(rx, y, SMALL_KNOB_RADIUS, "#333", "#666") >>

\* SvgCell with the right sub-column computed from the middle offset
SvgCell_RightAtMiddle(row, col) ==
  LET y  == Y_OPS_START + row * Y_OPS_ROW_SPACING
      kx == op_knob_x(col)
      mx == kx + KNOB_TO_MIDDLE_DX
      rx == kx + KNOB_TO_MIDDLE_DX
  IN  IF row = 0
      THEN << _circle(kx, y, SMALL_KNOB_RADIUS, "#333", "#aaa"),
              _rect(mx - TOGGLE_W, y - TOGGLE_H, TOGGLE_W * 2, TOGGLE_H * 2,
                    "#444", "#888"),
              _circle(rx, y, SMALL_KNOB_RADIUS, "#333", "#666") >>
      ELSE << _circle(kx, y, SMALL_KNOB_RADIUS, "#333", "#aaa"),
              _circle(mx, y, JACK_RADIUS, "#222", "#888"),
              _circle(rx, y, SMALL_KNOB_RADIUS, "#333", "#666") >>

\* the three shapes of one grid cell
SvgCell(row, col) ==
  LET y  == Y_OPS_START + row * Y_OPS_ROW_SPACING
      kx == op_knob_x(col)
      mx == kx + KNOB_TO_MIDDLE_DX
      rx == kx + KNOB_TO_RIGHT_DX
  IN  IF row = 0
      THEN << _circle(kx, y, SMALL_KNOB_RADIUS, "#333", "#aaa"),
              _rect(mx - TOGGLE_W, y - TOGGLE_H, TOGGLE_W * 2, TOGGLE_H * 2,
                    "#444", "#888"),
              _circle(rx, y, SMALL_KNOB_RADIUS, "#333", "#666") >>
      ELSE << _circle(kx, y, SMALL_KNOB_RADIUS, "#333", "#aaa"),
              _circle(mx, y, JACK_RADIUS, "#222", "#888"),
              _circle(rx, y, SMALL_KNOB_RADIUS, "#333", "#666") >>

RECURSIVE SvgGridFrom(_, _)
\* for row in range(5): for col in range(4), from cell (row, col) on
SvgGridFrom(row, col) ==
  IF row >= 5 THEN << >>
  ELSE IF col >= 4 THEN SvgGridFrom(row + 1, 0)
  ELSE SvgCell(row, col) \o SvgGridFrom(row, col + 1)

generate_svg ==
  << SvgOpen, SvgBackground, SvgAlgoRect >>
    \o SvgGlobalsFrom(1)
    \o << SvgSeparator >>
    \o SvgVSepsFrom(0)
    \o SvgGridFrom(0, 0)
    \o << SvgClose >>

\* the text of one line of the SVG document
RenderSvg(l) ==
  CASE l.tag = "svg" ->
         "<svg xmlns=\"http://www.w3.org/2000/svg\" width=\"" \o l.width
           \o "mm\" height=\"" \o l.height \o "mm\" viewBox=\"0 0 "
           \o l.width \o " " \o l.height \o "\">"
    [] l.tag = "background" ->
         "  <rect width=\"" \o l.width \o "\" height=\"" \o l.height
           \o "\" fill=\"#1a1a2e\" />"
    [] l.tag = "algo" ->
         "  <rect x=\"" \o l.x \o "\" y=\"" \o l.y \o "\" width=\"" \o l.width
           \o "\" height=\"" \o l.height
           \o "\" rx=\"1\" fill=\"#0a0a1a\" stroke=\"#404060\" stroke-width=\"0.3\" />"
    [] l.tag = "circle" ->
         "  <circle cx=\"" \o l.cx \o "\" cy=\"" \o l.cy \o "\" r=\"" \o l.r
           \o "\" fill=\"" \o l.fill \o "\" stroke=\"" \o l.stroke
           \o "\" stroke-width=\"0.3\" />"
    [] l.tag = "rect" ->
         "  <rect x=\"" \o l.x \o "\" y=\"" \o l.y \o "\" width=\"" \o l.width
           \o "\" height=\"" \o l.height \o "\" fill=\"" \o l.fill
           \o "\" stroke=\"" \o l.stroke \o "\" stroke-width=\"0.3\" />"
    [] l.tag = "line" ->
         "  <line x1=\"" \o l.x1 \o "\" y1=\"" \o l.y1 \o "\" x2=\"" \o l.x2
           \o "\" y2=\"" \o l.y2 \o "\" stroke=\"" \o l.stroke
           \o "\" stroke-width=\"" \o l.width \o "\" />"
    [] l.tag = "/svg" -> "</svg>"

(***************************************************************************)
(* C++ header generation                                                   *)
(***************************************************************************)
\* a line without a constant: pragma, comment, namespace brace or blank
Text(t) == [kind |-> "text", text |-> t]

\* a line 'constexpr float <name><pad>= <value>f;'
Const(name, pad, value) ==
  [kind |-> "const", name |-> name, pad |-> pad, value |-> value]

\* 'OP{col+1}'
OpPrefix(col) == "OP" \o ToString(col + 1)

HdrPreamble ==
  << Text("#pragma once"),
     Text("// Auto-generated by scripts/generate_panel.py -- do not edit manually."),
     Text("// All coordinates in mm (use mm2px() in VCV widget code)."),
     Text(""),
     Text("namespace fourmm_layout {"),
     Text("") >>

HdrPanel ==
  << Const("PANEL_WIDTH", "  ", Fmt2(WIDTH_MM)),
     Const("PANEL_HEIGHT", " ", Fmt1(HEIGHT_MM)),
     Text("") >>

HdrLabels ==
  << Text("// Label positions (for NanoVG rendering)"),
     Const("LABEL_COL_X", "   ", Fmt1(LABEL_COL_X)),
     Const("OP_HEADER_Y", "   ", Fmt1(Y_OP_HEADER)),
     Text("") >>

RECURSIVE HdrGlobalsFrom(_)
\* for name, (x, y) in GLOBAL_CONTROLS.items(), from the i-th item on
HdrGlobalsFrom(i) ==
  IF i > Len(GLOBAL_CONTROLS) THEN << >>
  ELSE LET g == GLOBAL_CONTROLS[i]
           cname == Upper(g.name)
       IN  << Const(cname \o "_X", " ", Fmt1(g.x)),
              Const(cname \o "_Y", " ", Fmt1(g.y)) >> \o HdrGlobalsFrom(i + 1)

RECURSIVE HdrKnobsFrom(_, _)
\* for col in range(4): for row in range(5), from (col, row) on
HdrKnobsFrom(col, row) ==
  IF col >= 4 THEN << >>
  ELSE IF row >= 5 THEN HdrKnobsFrom(col + 1, 0)
  ELSE LET kx == op_knob_x(col)
           y == Y_OPS_START + row * Y_OPS_ROW_SPACING
           n == OpPrefix(col) \o "_KNOB" \o ToString(row)
       IN  << Const(n \o "_X", " ", Fmt1(kx)),
              Const(n \o "_Y", " ", Fmt1(y)) >> \o HdrKnobsFrom(col, row + 1)

RECURSIVE HdrTogglesFrom(_)
HdrTogglesFrom(col) ==
  IF col >= 4 THEN << >>
  ELSE LET kx == op_knob_x(col)
           mx == kx + KNOB_TO_MIDDLE_DX
           y == Y_OPS_START
       IN  << Const(OpPrefix(col) \o "_TOGGLE_X", " ", Fmt1(mx)),
              Const(OpPrefix(col) \o "_TOGGLE_Y", " ", Fmt1(y)) >>
             \o HdrTogglesFrom(col + 1)

RECURSIVE HdrFinesFrom(_)
HdrFinesFrom(col) ==
  IF col >= 4 THEN << >>
  ELSE LET kx == op_knob_x(col)
           rx == kx + KNOB_TO_RIGHT_DX
           y == Y_OPS_START
       IN  << Const(OpPrefix(col) \o "_FINE_X", " ", Fmt1(rx)),
              Const(OpPrefix(col) \o "_FINE_Y", " ", Fmt1(y)) >>
             \o HdrFinesFrom(col + 1)

\* y of the cv_idx-th CV row (cv_idx counts from 0), placed on the knob row itself
CvY_SameIndex(cv_idx) == Y_OPS_START + cv_idx * Y_OPS_ROW_SPACING

\* y of the cv_idx-th CV row (cv_idx counts from 0): knob_row = CV_ROWS[cv_idx]
CvY(cv_idx) == Y_OPS_START + CV_ROWS[cv_idx + 1] * Y_OPS_ROW_SPACING

RECURSIVE HdrCvFrom(_, _)
\* for col in range(4): for cv_idx, knob_row in enumerate(CV_ROWS)
HdrCvFrom(col, cv_idx) ==
  IF col >= 4 THEN << >>
  ELSE IF cv_idx >= Len(CV_ROWS) THEN HdrCvFrom(col + 1, 0)
  ELSE LET kx == op_knob_x(col)
           jx == kx + KNOB_TO_MIDDLE_DX
           ax == kx + KNOB_TO_RIGHT_DX
           y == CvY(cv_idx)
           n == OpPrefix(col) \o "_CV" \o ToString(cv_idx)
       IN  << Const(n \o "_JACK_X", "  ", Fmt1(jx)),
              Const(n \o "_JACK_Y", "  ", Fmt1(y)),
              Const(n \o "_ATTEN_X", " ", Fmt1(ax)),
              Const(n \o "_ATTEN_Y", " ", Fmt1(y)) >>
             \o HdrCvFrom(col, cv_idx + 1)

RECURSIVE HdrFoldFrom(_)
HdrFoldFrom(col) ==
  IF col >= 4 THEN << >>
  ELSE LET fold_y == Y_OPS_START + 3 * Y_OPS_ROW_SPACING + 700
           kx == op_knob_x(col)
       IN  << Const(OpPrefix(col) \o "_FOLD_TYPE_X", " ", Fmt1(kx)),
              Const(OpPrefix(col) \o "_FOLD_TYPE_Y", " ", Fmt1(fold_y)) >>
             \o HdrFoldFrom(col + 1)

\* 'OP{col+1}_MID_X', with the operator number left out of the name
MidName_NoColumn(col) == "OP_MID_X"

\* 'OP{col+1}_MID_X'
MidName(col) == OpPrefix(col) \o "_MID_X"

RECURSIVE HdrMidFrom(_)
HdrMidFrom(col) ==
  IF col >= 4 THEN << >>
  ELSE LET mx == op_knob_x(col) + KNOB_TO_MIDDLE_DX
       IN  << Const(MidName(col), " ", Fmt1(mx)) >> \o HdrMidFrom(col + 1)

generate_coords_header ==
  HdrPreamble
    \o HdrPanel
    \o HdrLabels
    \o << Text("// Global controls") >> \o HdrGlobalsFrom(1) \o << Text("") >>
    \o << Text("// Operator knob positions"),
          Text("// Row index: 0=Coarse, 1=Level, 2=Warp, 3=Fold, 4=FB") >>
    \o HdrKnobsFrom(0, 0) \o << Text("") >>
    \o << Text("// Freq-mode toggle positions (row 0, middle sub-column)") >>
    \o HdrTogglesFrom(0) \o << Text("") >>
    \o << Text("// Fine trimpot positions (row 0, right sub-column)") >>
    \o HdrFinesFrom(0) \o << Text("") >>
    \o << Text("// Operator CV positions (jack + attenuverter beside knob)"),
          Text("// CV index: 0=Level, 1=Warp, 2=Fold, 3=FB"),
          Text("// CV row N is at the same Y as knob row N+1") >>
    \o HdrCvFrom(0, 0) \o << Text("") >>
    \o << Text("// Fold type display positions (below fold knob)") >>
    \o HdrFoldFrom(0) \o << Text("") >>
    \o << Text("// Middle sub-column X per operator (for OP header centering)") >>
    \o HdrMidFrom(0) \o << Text("") >>
    \o << Text("} // namespace fourmm_layout"), Text("") >>

\* the text of one line of the header
RenderHdr(l) ==
  IF l.kind = "text" THEN l.text
  ELSE "constexpr float " \o l.name \o l.pad \o "= " \o l.value \o "f;"

\* the lines of a document as text: what '\n'.join(lines) strings together
RenderedSvg(doc) == [i \in 1..Len(doc) |-> RenderSvg(doc[i])]

RenderedHdr(doc) == [i \in 1..Len(doc) |-> RenderHdr(doc[i])]

(***************************************************************************)
(* The files and the run of the script (the __main__ block)                *)
(***************************************************************************)
VARIABLES
  pc,         \* position of the run in the __main__ block
  runs,       \* number of runs started so far
  svgFile,    \* res/FourMM.svg
  hdrFile,    \* src/FourMM/layout.h
  svgOut,     \* the value generate_svg() returned in this run, <<>> before the call
  hdrOut,     \* the value generate_coords_header() returned in this run
  svgBefore,  \* res/FourMM.svg as it was when this run started
  hdrBefore,  \* src/FourMM/layout.h as it was when this run started
  completed,  \* number of runs that reached the end of the block
  svgFirst,   \* res/FourMM.svg as the first completed run left it
  hdrFirst    \* src/FourMM/layout.h as the first completed run left it

vars == << pc, runs, svgFile, hdrFile, svgOut, hdrOut, svgBefore, hdrBefore,
           completed, svgFirst, hdrFirst >>

\* a file is absent, or exists and holds a sequence of text lines
Absent == [exists |-> FALSE, data |-> << >>]

File(data) == [exists |-> TRUE, data |-> data]

\* what the two paths may hold before the script ever ran
OldContents ==
  { Absent, File(<< >>), File(<< "stale" >>), File(<< "stale", "older" >>) }

\* the numbers of lines a failing write may leave behind, of n lines to write
\* (all n when it is the close or the print after it that fails)
Cuts(n) == { 0, 1, n \div 2, n - 1, n }

\* open(path, 'a'): the file is created if absent and keeps what it holds
OpenA(f) == File(f.data)

\* open(path, 'w'): the file is created if absent and truncated
OpenW(f) == File(<< >>)

\* f.write(text) and the close at the end of the with block
WriteAll(f, text) == File(f.data \o text)

\* a write that fails after k lines reached the file
WritePart(f, text, k) == File(f.data \o SubSeq(text, 1, k))

Init ==
  /\ pc = "idle"
  /\ runs = 0
  /\ svgFile \in OldContents
  /\ hdrFile \in OldContents
  /\ svgOut = << >>
  /\ hdrOut = << >>
  /\ svgBefore = svgFile
  /\ hdrBefore = hdrFile
  /\ completed = 0
  /\ svgFirst = Absent
  /\ hdrFirst = Absent

\* python3 scripts/generate_panel.py: a new process, with nothing generated yet
StartRun ==
  /\ pc \in {"idle", "done", "aborted"}
  /\ runs < MaxRuns
  /\ pc' = "start"
  /\ runs' = runs + 1
  /\ svgOut' = << >>
  /\ hdrOut' = << >>
  /\ svgBefore' = svgFile
  /\ hdrBefore' = hdrFile
  /\ UNCHANGED << svgFile, hdrFile, completed, svgFirst, hdrFirst >>

\* OpenSvg with both output files opened before anything is written
OpenSvg_BothFiles ==
  /\ pc = "start"
  /\ svgFile' = OpenW(svgFile)
  /\ hdrFile' = OpenW(hdrFile)
  /\ pc' = "svg_opened"
  /\ UNCHANGED << runs, svgOut, hdrOut, svgBefore, hdrBefore,
                  completed, svgFirst, hdrFirst >>

\* with open(svg_path, 'w') as f
OpenSvg ==
  /\ pc = "start"
  /\ svgFile' = OpenW(svgFile)
  /\ pc' = "svg_opened"
  /\ UNCHANGED << runs, hdrFile, svgOut, hdrOut, svgBefore, hdrBefore,
                  completed, svgFirst, hdrFirst >>

\* open(svg_path, 'w') raises: the error propagates and the process ends
OpenSvgFail ==
  /\ pc = "start"
  /\ pc' = "aborted"
  /\ UNCHANGED << runs, svgFile, hdrFile, svgOut, hdrOut, svgBefore, hdrBefore,
                  completed, svgFirst, hdrFirst >>

\* the argument of f.write is evaluated: generate_svg()
GenSvg ==
  /\ pc = "svg_opened"
  /\ svgOut' = generate_svg
  /\ pc' = "svg_generated"
  /\ UNCHANGED << runs, svgFile, hdrFile, hdrOut, svgBefore, hdrBefore,
                  completed, svgFirst, hdrFirst >>

\* f.write(...) and the close of the with block succeed; print
WriteSvg ==
  /\ pc = "svg_generated"
  /\ svgFile' = WriteAll(svgFile, RenderedSvg(svgOut))
  /\ pc' = "svg_written"
  /\ UNCHANGED << runs, hdrFile, svgOut, hdrOut, svgBefore, hdrBefore,
                  completed, svgFirst, hdrFirst >>

\* f.write(...) or the close raises after part of the text reached the file
WriteSvgFail ==
  /\ pc = "svg_generated"
  /\ \E k \in Cuts(Len(svgOut)) :
       svgFile' = WritePart(svgFile, RenderedSvg(svgOut), k)
  /\ pc' = "aborted"
  /\ UNCHANGED << runs, hdrFile, svgOut, hdrOut, svgBefore, hdrBefore,
                  completed, svgFirst, hdrFirst >>

\* with open(header_path, 'w') as f
OpenHeader ==
  /\ pc = "svg_written"
  /\ hdrFile' = OpenW(hdrFile)
  /\ pc' = "hdr_opened"
  /\ UNCHANGED << runs, svgFile, svgOut, hdrOut, svgBefore, hdrBefore,
                  completed, svgFirst, hdrFirst >>

OpenHeaderFail ==
  /\ pc = "svg_written"
  /\ pc' = "aborted"
  /\ UNCHANGED << runs, svgFile, hdrFile, svgOut, hdrOut, svgBefore, hdrBefore,
                  completed, svgFirst, hdrFirst >>

\* the argument of f.write is evaluated: generate_coords_header()
GenHeader ==
  /\ pc = "hdr_opened"
  /\ hdrOut' = generate_coords_header
  /\ pc' = "hdr_generated"
  /\ UNCHANGED << runs, svgFile, hdrFile, svgOut, svgBefore, hdrBefore,
                  completed, svgFirst, hdrFirst >>

\* f.write(...) and the close succeed; print; the block ends
WriteHeader ==
  /\ pc = "hdr_generated"
  /\ hdrFile' = WriteAll(hdrFile, RenderedHdr(hdrOut))
  /\ pc' = "done"
  /\ completed' = completed + 1
  /\ svgFirst' = IF completed = 0 THEN svgFile ELSE svgFirst
  /\ hdrFirst' = IF completed = 0 THEN hdrFile' ELSE hdrFirst
  /\ UNCHANGED << runs, svgFile, svgOut, hdrOut, svgBefore, hdrBefore >>

WriteHeaderFail ==
  /\ pc = "hdr_generated"
  /\ \E k \in Cuts(Len(hdrOut)) :
       hdrFile' = WritePart(hdrFile, RenderedHdr(hdrOut), k)
  /\ pc' = "aborted"
  /\ UNCHANGED << runs, svgFile, svgOut, hdrOut, svgBefore, hdrBefore,
                  completed, svgFirst, hdrFirst >>

Next ==
  \/ StartRun
  \/ OpenSvg
  \/ OpenSvgFail
  \/ GenSvg
  \/ WriteSvg
  \/ WriteSvgFail
  \/ OpenHeader
  \/ OpenHeaderFail
  \/ GenHeader
  \/ WriteHeader
  \/ WriteHeaderFail

Spec == Init /\ [][Next]_vars

TypeOK ==
  /\ pc \in {"idle", "start", "svg_opened", "svg_generated", "svg_written",
             "hdr_opened", "hdr_generated", "done", "aborted"}
  /\ runs \in 0..MaxRuns
  /\ completed \in 0..runs

(***************************************************************************)
(* Reading the documents back                                              *)
(***************************************************************************)
Digit(c) ==
  CASE c = "0" -> 0 [] c = "1" -> 1 [] c = "2" -> 2 [] c = "3" -> 3
    [] c = "4" -> 4 [] c = "5" -> 5 [] c = "6" -> 6 [] c = "7" -> 7
    [] c = "8" -> 8 [] c = "9" -> 9

RECURSIVE ParseInt(_)
ParseInt(s) ==
  IF Len(s) = 0 THEN 0
  ELSE 10 * ParseInt(SubSeq(s, 1, Len(s) - 1)) + Digit(SubSeq(s, Len(s), Len(s)))

\* the number printed as 'ddd.d', in tenths of a millimetre
ParseTenths(s) ==
  10 * ParseInt(SubSeq(s, 1, Len(s) - 2)) + Digit(SubSeq(s, Len(s), Len(s)))

\* the positions of the lines of doc with the given tag
TagLines(doc, t) == { i \in 1..Len(doc) : doc[i].tag = t }

\* the positions of the constexpr lines of a header
ConstLines(doc) == { i \in 1..Len(doc) : doc[i].kind = "const" }

\* the positions of the lines of a header that declare the name n
Decls(doc, n) == { i \in ConstLines(doc) : doc[i].name = n }

\* the value printed for the constant n
HdrValue(doc, n) == doc[CHOOSE i \in Decls(doc, n) : TRUE].value

\* the text both files hold after a complete write
SvgText == RenderedSvg(generate_svg)

HdrText == RenderedHdr(generate_coords_header)

IsPrefix(p, t) == Len(p) <= Len(t) /\ SubSeq(t, 1, Len(p)) = p

OpNums == 1..4

Axes == {"_X", "_Y"}

OpName(n) == "OP" \o ToString(n)

\* the names the header is to declare
ExpectedNames ==
  {"PANEL_WIDTH", "PANEL_HEIGHT", "LABEL_COL_X", "OP_HEADER_Y"}
    \cup { n \o a : n \in {"ALGO_DISPLAY", "VOCT_JACK", "FINE_TUNE_KNOB",
                           "VCA_KNOB", "MAIN_OUTPUT", "XM_KNOB", "XM_CV_JACK",
                           "XM_CV_ATTEN", "FM_CV_JACK", "FM_CV_ATTEN"},
                    a \in Axes }
    \cup { OpName(n) \o "_KNOB" \o ToString(r) \o a :
             n \in OpNums, r \in 0..4, a \in Axes }
    \cup { OpName(n) \o w \o a :
             n \in OpNums, w \in {"_TOGGLE", "_FINE", "_FOLD_TYPE"}, a \in Axes }
    \cup { OpName(n) \o "_CV" \o ToString(i) \o w \o a :
             n \in OpNums, i \in 0..3, w \in {"_JACK", "_ATTEN"}, a \in Axes }
    \cup { OpName(n) \o "_MID_X" : n \in OpNums }

(***************************************************************************)
(* C1: in the listing generate_coords_header() returns, every constant     *)
(* name is declared exactly once: no two constexpr lines share a name, and *)
(* each name of the panel, label, global-control and per-operator families *)
(* has exactly one line.                                                   *)
(***************************************************************************)
C1_UniqueNames ==
  hdrOut # << >> =>
    /\ \A i, j \in ConstLines(hdrOut) :
         i # j => hdrOut[i].name # hdrOut[j].name
    /\ \A n \in ExpectedNames : Cardinality(Decls(hdrOut, n)) = 1
    /\ \A i \in ConstLines(hdrOut) : hdrOut[i].name \in ExpectedNames

C1_Witness ==
  /\ pc = "hdr_generated"
  /\ Cardinality(ConstLines(hdrOut)) = 156
  /\ Decls(hdrOut, "OP4_MID_X") # {}

(***************************************************************************)
(* C2: the document generate_svg() returns opens with one <svg> line and   *)
(* closes with one </svg> line, holds one background rectangle and one     *)
(* algorithm-display rectangle, and for each of the 4x5 grid cells three   *)
(* shapes: circle, rectangle, circle in row 0 and three circles in rows    *)
(* 1..4; the number of shapes is fixed.                                    *)
(***************************************************************************)
\* the position of the last separator line: the grid follows it
GridBase(doc) == CHOOSE i \in TagLines(doc, "line") :
                   \A j \in TagLines(doc, "line") : j <= i

\* the position of the k-th shape (k in 1..3) of cell (row, col)
CellLine(doc, row, col, k) == GridBase(doc) + 3 * (4 * row + col) + k

C2_SvgStructure ==
  svgOut # << >> =>
    /\ TagLines(svgOut, "svg") = {1}
    /\ TagLines(svgOut, "/svg") = {Len(svgOut)}
    /\ Cardinality(TagLines(svgOut, "background")) = 1
    /\ Cardinality(TagLines(svgOut, "algo")) = 1
    /\ Len(svgOut) = GridBase(svgOut) + 60 + 1
    /\ \A row \in 0..4, col \in 0..3 :
         /\ svgOut[CellLine(svgOut, row, col, 1)].tag = "circle"
         /\ svgOut[CellLine(svgOut, row, col, 2)].tag
              = IF row = 0 THEN "rect" ELSE "circle"
         /\ svgOut[CellLine(svgOut, row, col, 3)].tag = "circle"
         /\ \A k \in 1..3 :
              LET l == svgOut[CellLine(svgOut, row, col, k)]
              IN  IF l.tag = "circle"
                  THEN l.cy = Fmt1(Y_OPS_START + row * Y_OPS_ROW_SPACING)
                  ELSE l.y = Fmt1(Y_OPS_START - TOGGLE_H)
    /\ Cardinality(TagLines(svgOut, "rect")) = 4
    /\ Cardinality(TagLines(svgOut, "circle")) = 9 + 2 * 4 + 3 * 16
    /\ Cardinality(TagLines(svgOut, "line")) = 4
    /\ Len(svgOut) = 77

C2_Witness ==
  /\ pc = "svg_generated"
  /\ svgOut[CellLine(svgOut, 0, 3, 2)].tag = "rect"
  /\ svgOut[CellLine(svgOut, 4, 3, 3)].tag = "circle"

(***************************************************************************)
(* C3: with the table unchanged, every completed run leaves both files     *)
(* with exactly the lines the first completed run left, whatever they held *)
(* before the first run.                                                   *)
(***************************************************************************)
C3_Idempotent ==
  pc = "done" => svgFile = svgFirst /\ hdrFile = hdrFirst

C3_Witness ==
  /\ pc = "done"
  /\ completed = 2
  /\ svgFile.data = SvgText
  /\ hdrFile.data = HdrText

(***************************************************************************)
(* C4 as stated: after a filesystem failure each output file holds either  *)
(* its complete content from before the run or the complete new content,   *)
(* never an empty or truncated file.                                       *)
(***************************************************************************)
C4_NoPartialOutput ==
  pc = "aborted" =>
    /\ svgFile \in {svgBefore, File(SvgText)}
    /\ hdrFile \in {hdrBefore, File(HdrText)}

(***************************************************************************)
(* C4 amended: a filesystem failure ends the run, and then each output     *)
(* file holds either its complete content from before the run or a leading *)
(* part of the new content, from nothing up to all of it; the header file  *)
(* is touched only after the SVG file has been written completely.         *)
(***************************************************************************)
C4_PrefixOutput ==
  pc = "aborted" =>
    /\ \/ svgFile = svgBefore
       \/ svgFile.exists /\ IsPrefix(svgFile.data, SvgText)
    /\ \/ hdrFile = hdrBefore
       \/ /\ hdrFile.exists /\ IsPrefix(hdrFile.data, HdrText)
          /\ svgFile = File(SvgText)

C4_Witness ==
  /\ pc = "aborted"
  /\ svgBefore = File(<< "stale" >>)
  /\ svgFile = File(<< >>)
  /\ hdrFile = hdrBefore

(***************************************************************************)
(* C5: the operator-column pitch divides the remaining horizontal space    *)
(* evenly over the 4 columns: pitch x 4 + section left + right margin is   *)
(* the panel width; for HP = 26 the width is 132.08 mm, as both emitters   *)
(* print it, and the pitch 27.02 mm.                                       *)
(***************************************************************************)
C5_EvenPitch ==
  /\ OP_COL_PITCH * 4 + OP_SECTION_LEFT + MARGIN_RIGHT = WIDTH_MM
  /\ HP = 26 => WIDTH_MM = 13208 /\ OP_COL_PITCH = 2702
  /\ svgOut # << >> => svgOut[1].width = "132.08"
  /\ hdrOut # << >> =>
       /\ HdrValue(hdrOut, "PANEL_WIDTH") = "132.08"
       \* the columns are one pitch apart, the last one ending at the margin
       /\ \A n \in 1..3 :
            ParseTenths(HdrValue(hdrOut, OpName(n + 1) \o "_KNOB0_X"))
              - ParseTenths(HdrValue(hdrOut, OpName(n) \o "_KNOB0_X"))
              \in {270, 271}

C5_Witness ==
  /\ pc = "hdr_generated"
  /\ HdrValue(hdrOut, "PANEL_WIDTH") = "132.08"
  /\ svgOut[1].width = "132.08"

(***************************************************************************)
(* C6: for every column c and row r both emitters put the knob centre at   *)
(* x = section left + pitch x c + 5.0 and y = row start + r x row spacing, *)
(* with the middle and right sub-widgets at x + 8.5 and x + 17.0; column 0 *)
(* has knob x = 25.0, row 3 has y = 100.0 and the fold-type label is at    *)
(* y = 107.0.                                                              *)
(***************************************************************************)
KnobX(c) == OP_SECTION_LEFT + OP_COL_PITCH * c + 500

KnobY(r) == Y_OPS_START + r * Y_OPS_ROW_SPACING

C6_SvgCentres ==
  \A r \in 0..4, c \in 0..3 :
    LET k == svgOut[CellLine(svgOut, r, c, 1)]
        m == svgOut[CellLine(svgOut, r, c, 2)]
        t == svgOut[CellLine(svgOut, r, c, 3)]
    IN  /\ k.cx = Fmt1(KnobX(c)) /\ k.cy = Fmt1(KnobY(r))
        /\ t.cx = Fmt1(KnobX(c) + 1700) /\ t.cy = Fmt1(KnobY(r))
        /\ IF r = 0
           THEN /\ m.x = Fmt1(KnobX(c) + 850 - 250)
                /\ m.y = Fmt1(KnobY(r) - 500)
           ELSE /\ m.cx = Fmt1(KnobX(c) + 850)
                /\ m.cy = Fmt1(KnobY(r))
        /\ c = 0 => k.cx = "25.0"
        /\ r = 3 => k.cy = "100.0"

C6_HdrCentres ==
  \A n \in OpNums :
    /\ \A r \in 0..4 :
         /\ HdrValue(hdrOut, OpName(n) \o "_KNOB" \o ToString(r) \o "_X")
              = Fmt1(KnobX(n - 1))
         /\ HdrValue(hdrOut, OpName(n) \o "_KNOB" \o ToString(r) \o "_Y")
              = Fmt1(KnobY(r))
    /\ HdrValue(hdrOut, OpName(n) \o "_TOGGLE_X") = Fmt1(KnobX(n - 1) + 850)
    /\ HdrValue(hdrOut, OpName(n) \o "_FINE_X") = Fmt1(KnobX(n - 1) + 1700)
    /\ HdrValue(hdrOut, OpName(n) \o "_MID_X") = Fmt1(KnobX(n - 1) + 850)
    /\ \A i \in 0..3 :
         /\ HdrValue(hdrOut, OpName(n) \o "_CV" \o ToString(i) \o "_JACK_X")
              = Fmt1(KnobX(n - 1) + 850)
         /\ HdrValue(hdrOut, OpName(n) \o "_CV" \o ToString(i) \o "_ATTEN_X")
              = Fmt1(KnobX(n - 1) + 1700)
    /\ HdrValue(hdrOut, OpName(n) \o "_KNOB3_Y") = "100.0"
    /\ HdrValue(hdrOut, OpName(n) \o "_FOLD_TYPE_Y") = "107.0"
    /\ HdrValue(hdrOut, OpName(n) \o "_FOLD_TYPE_X") = Fmt1(KnobX(n - 1))
    /\ n = 1 => HdrValue(hdrOut, "OP1_KNOB0_X") = "25.0"

C6_KnobCentres ==
  /\ svgOut # << >> => C6_SvgCentres
  /\ hdrOut # << >> => C6_HdrCentres

C6_Witness ==
  /\ pc = "hdr_generated"
  /\ svgOut[CellLine(svgOut, 3, 0, 1)].cx = "25.0"
  /\ svgOut[CellLine(svgOut, 3, 0, 1)].cy = "100.0"
  /\ HdrValue(hdrOut, "OP1_FOLD_TYPE_Y") = "107.0"

(***************************************************************************)
(* C7: generate_svg() draws one circle for every entry of GLOBAL_CONTROLS  *)
(* but 'algo_display', centred at the entry's coordinate, in the style its *)
(* name selects: 'jack' or 'output' in the name gives radius 3.2 and       *)
(* stroke #888; otherwise 'atten' gives radius 2.5 and stroke #666;        *)
(* otherwise radius 2.5 and stroke #aaa.                                   *)
(***************************************************************************)
\* the entries of GLOBAL_CONTROLS that are drawn, in order
DrawnControls == SelectSeq(GLOBAL_CONTROLS, LAMBDA g : g.name # "algo_display")

\* the circles of the document that precede the first separator line
GlobalCircleLines(doc) ==
  { i \in TagLines(doc, "circle") : \A j \in TagLines(doc, "line") : i < j }

\* names on which the order of the two tests shows
BothNames == {"jack_atten", "atten_output", "xm_atten_jack"}

C7_GlobalCircles ==
  /\ svgOut # << >> =>
       /\ Cardinality(GlobalCircleLines(svgOut)) = Len(GLOBAL_CONTROLS) - 1
       /\ GlobalCircleLines(svgOut) = { 3 + j : j \in 1..Len(DrawnControls) }
       /\ \A j \in 1..Len(DrawnControls) :
            LET g == DrawnControls[j]
                l == svgOut[3 + j]
            IN  /\ l.cx = Fmt1(g.x) /\ l.cy = Fmt1(g.y)
                /\ IF Contains(g.name, "jack") \/ Contains(g.name, "output")
                   THEN l.r = "3.2" /\ l.stroke = "#888"
                   ELSE IF Contains(g.name, "atten")
                   THEN l.r = "2.5" /\ l.stroke = "#666"
                   ELSE l.r = "2.5" /\ l.stroke = "#aaa"
       /\ svgOut[3 + 4].r = "3.2"    \* main_output
       /\ svgOut[3 + 7].stroke = "#666"    \* xm_cv_atten
       /\ svgOut[3 + 2].stroke = "#aaa"    \* fine_tune_knob
       /\ \A i \in TagLines(svgOut, "circle") :
            ~ (svgOut[i].cx = Fmt1(GLOBAL_CONTROLS[1].x)
                 /\ svgOut[i].cy = Fmt1(GLOBAL_CONTROLS[1].y))
  /\ \A n \in BothNames :
       GlobalStyle(n).r = JACK_RADIUS /\ GlobalStyle(n).stroke = "#888"

C7_Witness ==
  /\ pc = "svg_generated"
  /\ Cardinality(GlobalCircleLines(svgOut)) = 9
  /\ svgOut[3 + 8].r = "3.2"

(***************************************************************************)
(* C8: in the header CV row i is at the Y of knob row i+1: for every       *)
(* operator n and CV index i the values of OPn_CVi_JACK_Y and              *)
(* OPn_CVi_ATTEN_Y are the value of OPn_KNOB(i+1)_Y, and no CV constant    *)
(* has the Y of knob row 0.                                                *)
(***************************************************************************)
C8_CvRows ==
  hdrOut # << >> =>
    \A n \in OpNums, i \in 0..3 :
      LET jy == HdrValue(hdrOut, OpName(n) \o "_CV" \o ToString(i) \o "_JACK_Y")
          ay == HdrValue(hdrOut, OpName(n) \o "_CV" \o ToString(i) \o "_ATTEN_Y")
      IN  /\ jy = HdrValue(hdrOut, OpName(n) \o "_KNOB" \o ToString(i + 1) \o "_Y")
          /\ ay = jy
          /\ jy # HdrValue(hdrOut, OpName(n) \o "_KNOB0_Y")

C8_Witness ==
  /\ pc = "hdr_generated"
  /\ HdrValue(hdrOut, "OP2_CV0_JACK_Y") = "70.0"
  /\ HdrValue(hdrOut, "OP2_CV3_ATTEN_Y") = "115.0"

(***************************************************************************)
(* C9: the two emitters agree on every widget: the centre printed in the   *)
(* SVG for a widget's shape (for the toggle rectangle its printed x + 2.5  *)
(* and y + 5.0) is the X/Y value printed for the widget's constants in the *)
(* header.                                                                 *)
(***************************************************************************)
\* the header names of the drawn global controls, in the order of the table
GlobalConstNames ==
  << "VOCT_JACK", "FINE_TUNE_KNOB", "VCA_KNOB", "MAIN_OUTPUT", "XM_KNOB",
     "XM_CV_JACK", "XM_CV_ATTEN", "FM_CV_JACK", "FM_CV_ATTEN" >>

\* the header name of the k-th widget of cell (row, col)
WidgetName(row, col, k) ==
  IF k = 1 THEN OpName(col + 1) \o "_KNOB" \o ToString(row)
  ELSE IF row = 0 THEN OpName(col + 1) \o (IF k = 2 THEN "_TOGGLE" ELSE "_FINE")
  ELSE OpName(col + 1) \o "_CV" \o ToString(row - 1)
         \o (IF k = 2 THEN "_JACK" ELSE "_ATTEN")

C9_EmittersAgree ==
  (svgOut # << >> /\ hdrOut # << >>) =>
    /\ \A j \in 1..Len(GlobalConstNames) :
         /\ svgOut[3 + j].tag = "circle"
         /\ svgOut[3 + j].cx = HdrValue(hdrOut, GlobalConstNames[j] \o "_X")
         /\ svgOut[3 + j].cy = HdrValue(hdrOut, GlobalConstNames[j] \o "_Y")
    /\ \A row \in 0..4, col \in 0..3, k \in 1..3 :
         LET l == svgOut[CellLine(svgOut, row, col, k)]
             hx == HdrValue(hdrOut, WidgetName(row, col, k) \o "_X")
             hy == HdrValue(hdrOut, WidgetName(row, col, k) \o "_Y")
         IN  IF l.tag = "rect"
             THEN /\ ParseTenths(l.x) + 25 = ParseTenths(hx)
                  /\ ParseTenths(l.y) + 50 = ParseTenths(hy)
             ELSE l.cx = hx /\ l.cy = hy

C9_Witness ==
  /\ pc = "hdr_generated"
  /\ svgOut[CellLine(svgOut, 0, 3, 2)].x = "112.1"
  /\ HdrValue(hdrOut, "OP4_TOGGLE_X") = "114.6"
  /\ svgOut[CellLine(svgOut, 2, 3, 1)].cx = "106.1"

(***************************************************************************)
(* C10: no two widget shapes of the document generate_svg() returns        *)
(* overlap: any two of the 9 global-control circles, the 60 shapes of the  *)
(* operator grid and the algorithm-display rectangle are disjoint.         *)
(***************************************************************************)
\* the extent of a drawn shape, in tenths of a millimetre
Shape(l) ==
  IF l.tag = "circle"
  THEN [round |-> TRUE, cx |-> ParseTenths(l.cx), cy |-> ParseTenths(l.cy),
        r |-> ParseTenths(l.r)]
  ELSE LET x0 == ParseTenths(l.x)
           y0 == ParseTenths(l.y)
           h  == IF l.tag = "algo" THEN 10 * ParseInt(l.height)
                 ELSE ParseTenths(l.height)
       IN  [round |-> FALSE, x0 |-> x0, y0 |-> y0,
            x1 |-> x0 + ParseTenths(l.width), y1 |-> y0 + h]

Max(a, b) == IF a >= b THEN a ELSE b

\* how far the coordinate c lies outside the interval lo..hi
Outside(c, lo, hi) == Max(Max(lo - c, c - hi), 0)

Disjoint(a, b) ==
  IF a.round /\ b.round
  THEN (a.cx - b.cx) * (a.cx - b.cx) + (a.cy - b.cy) * (a.cy - b.cy)
         > (a.r + b.r) * (a.r + b.r)
  ELSE IF a.round
  THEN LET dx == Outside(a.cx, b.x0, b.x1)
           dy == Outside(a.cy, b.y0, b.y1)
       IN  dx * dx + dy * dy > a.r * a.r
  ELSE IF b.round
  THEN LET dx == Outside(b.cx, a.x0, a.x1)
           dy == Outside(b.cy, a.y0, a.y1)
       IN  dx * dx + dy * dy > b.r * b.r
  ELSE a.x1 < b.x0 \/ b.x1 < a.x0 \/ a.y1 < b.y0 \/ b.y1 < a.y0

\* the positions of the widget shapes of a document
WidgetLines(doc) ==
  TagLines(doc, "circle") \cup TagLines(doc, "rect") \cup TagLines(doc, "algo")

C10_NoOverlap ==
  svgOut # << >> =>
    LET W == WidgetLines(svgOut)
        sh == [i \in W |-> Shape(svgOut[i])]
    IN  /\ Cardinality(W) = 9 + 60 + 1
        /\ \A i, j \in W : i < j => Disjoint(sh[i], sh[j])

C10_Witness ==
  /\ pc = "svg_generated"
  /\ Cardinality(WidgetLines(svgOut)) = 70
  /\ Shape(svgOut[CellLine(svgOut, 1, 0, 2)]).r = 32
  /\ Shape(svgOut[CellLine(svgOut, 0, 0, 2)]).x1 = 360

====
